---- MODULE Spec2Model ----
(***************************************************************************)
(* HashGen (src/HashGen.py): the snippet store (SnippetManager), the       *)
(* signing engine (CryptoEngine.execute_snippet, reached through           *)
(* App.on_generate) and the seeded reference algorithm (the default        *)
(* snippet's generate).                                                    *)
(*                                                                         *)
(* A Python str is a sequence of tokens (each token a TLA+ string).  A     *)
(* Python dict is [keys, val]: the keys in insertion order and the mapping.*)
(* A Python value is [t, s]: its type and its string form (what str()      *)
(* yields).                                                                *)
(***************************************************************************)
EXTENDS Integers, Sequences, FiniteSets, TLC

VARIABLES
    snippets,     \* SnippetManager.snippets: the in-memory collection
    file,         \* the backing file snippets.json
    fs,           \* the file system's condition (environment)
    last,         \* the last store call: its arguments, what it saw, what it returned
    failedSaves,  \* a save has failed since construction
    pc,           \* the generate handler's position: "idle", "ready", "done"
    req,          \* the generate tab's inputs
    result,       \* what execute_snippet did for the last request
    gen_output    \* the text on_generate put in the output box

vars == <<snippets, file, fs, last, failedSaves, pc, req, result, gen_output>>

(***************************************************************************)
(* Python dict                                                             *)
(***************************************************************************)
EmptyDict == [keys |-> <<>>, val |-> <<>>]

Range(s) == {s[i] : i \in DOMAIN s}

HasKey(d, k) == k \in Range(d.keys)

\* d.get(k): None when absent
None == [t |-> "NoneType", s |-> <<"None">>]

DictGet(d, k) == IF HasKey(d, k) THEN d.val[k] ELSE None

\* d[k] = v: a new key goes last, an old key keeps its place
DictSet(d, k, v) ==
    [keys |-> IF HasKey(d, k) THEN d.keys ELSE Append(d.keys, k),
     val  |-> [x \in Range(d.keys) \cup {k} |-> IF x = k THEN v ELSE d.val[x]]]

\* del d[k]
DictDel(d, k) ==
    [keys |-> SelectSeq(d.keys, LAMBDA x : x # k),
     val  |-> [x \in Range(d.keys) \ {k} |-> d.val[x]]]

(***************************************************************************)
(* The backing file and its JSON document                                  *)
(***************************************************************************)
\* json.dump(self.snippets, f, indent=2): the members, in order
json_dump(d) ==
    [i \in 1..Len(d.keys) |->
        [key |-> d.keys[i],
         code |-> d.val[d.keys[i]].code,
         description |-> d.val[d.keys[i]].description]]

\* json.load(f): the object's members, a repeated key keeping its last value
RECURSIVE json_load(_)
json_load(doc) ==
    IF doc = <<>> THEN EmptyDict
    ELSE LET m == doc[Len(doc)]
         IN  DictSet(json_load(SubSeq(doc, 1, Len(doc) - 1)), m.key,
                     [code |-> m.code, description |-> m.description])

Absent == [kind |-> "absent", doc |-> <<>>]
Corrupt == [kind |-> "corrupt", doc |-> <<>>]
JsonFile(doc) == [kind |-> "json", doc |-> doc]

\* the file system: writes succeed, open-for-write is refused, or the write
\* fails after the file was opened (and so truncated)
FsModes == {"ok", "readonly", "full"}

(***************************************************************************)
(* SnippetManager                                                          *)
(***************************************************************************)
DefaultName == "ABA HMAC SHA256"
DefaultCode == "default_code"
DefaultDescription == "Original ABA HMAC-SHA256 Implementation"
DefaultSnippet == [code |-> DefaultCode, description |-> DefaultDescription]

\* save_snippets without the write
SaveNoWrite(s, f, mode) ==
    IF mode = "ok" THEN [ok |-> TRUE, file |-> f]
    ELSE IF mode = "readonly" THEN [ok |-> FALSE, file |-> f]
    ELSE [ok |-> FALSE, file |-> Corrupt]

\* save_snippets(): [ok, file]
save_snippets(s, f, mode) ==
    IF mode = "ok" THEN [ok |-> TRUE, file |-> JsonFile(json_dump(s))]
    ELSE IF mode = "readonly" THEN [ok |-> FALSE, file |-> f]
    ELSE [ok |-> FALSE, file |-> Corrupt]

\* create_default_snippets starting from an empty collection
CreateDefaultsOnly(s, f, mode) ==
    LET s1 == DictSet(EmptyDict, DefaultName, DefaultSnippet)
        w  == save_snippets(s1, f, mode)
    IN  [snippets |-> s1, ok |-> w.ok, file |-> w.file]

\* create_default_snippets(): [snippets, ok, file]
create_default_snippets(s, f, mode) ==
    LET s1 == DictSet(s, DefaultName, DefaultSnippet)
        w  == save_snippets(s1, f, mode)
    IN  [snippets |-> s1, ok |-> w.ok, file |-> w.file]

\* load_snippets(): [snippets, file, seeded, saved]
load_snippets(s, f, mode, readOk) ==
    LET seeded == f.kind = "absent"
        c  == IF seeded THEN create_default_snippets(s, f, mode)
              ELSE [snippets |-> s, ok |-> TRUE, file |-> f]
        s2 == IF readOk /\ c.file.kind = "json" THEN json_load(c.file.doc)
              ELSE EmptyDict
    IN  [snippets |-> s2, file |-> c.file, seeded |-> seeded,
         saved |-> IF ~seeded THEN "none" ELSE IF c.ok THEN "ok" ELSE "failed"]

\* delete_snippet saving on every call
DeleteAlwaysSaves(s, f, mode, name) ==
    LET s1 == IF HasKey(s, name) THEN DictDel(s, name) ELSE s
        w  == save_snippets(s1, f, mode)
    IN  [snippets |-> s1, file |-> w.file,
         saved |-> IF w.ok THEN "ok" ELSE "failed"]

\* delete_snippet(name): [snippets, file, saved]
delete_snippet(s, f, mode, name) ==
    IF HasKey(s, name)
    THEN LET s1 == DictDel(s, name)
             w  == save_snippets(s1, f, mode)
         IN  [snippets |-> s1, file |-> w.file,
              saved |-> IF w.ok THEN "ok" ELSE "failed"]
    ELSE [snippets |-> s, file |-> f, saved |-> "none"]

\* update_snippet(name, code, description): [snippets, file, saved]
update_snippet(s, f, mode, name, code, description) ==
    LET s1 == DictSet(s, name, [code |-> code, description |-> description])
        w  == save_snippets(s1, f, mode)
    IN  [snippets |-> s1, file |-> w.file,
         saved |-> IF w.ok THEN "ok" ELSE "failed"]

\* the file holds the collection `s`: what a fresh load would read is `s`
Synced(s, f) == f.kind = "json" /\ json_load(f.doc) = s

\* the inputs
Names == {DefaultName, "a"}
Codes == {DefaultCode, "c1"}
Descriptions == {"", "d"}

InitialFiles ==
    {Absent, Corrupt, JsonFile(<<>>),
     JsonFile(<<[key |-> "a", code |-> "c1", description |-> "d"]>>)}

NoCall == [op |-> "none", name |-> "", code |-> "", description |-> "",
           mode |-> "ok", saved |-> "none", ret |-> "None",
           pre |-> EmptyDict, preAbsent |-> FALSE, preSynced |-> FALSE,
           readOk |-> TRUE]

\* SnippetManager(filepath): self.snippets = {} and load_snippets()
StoreInit ==
    \E f \in InitialFiles, mode \in FsModes, readOk \in BOOLEAN :
        LET r == load_snippets(EmptyDict, f, mode, readOk)
        IN  /\ snippets = r.snippets
            /\ file = r.file
            /\ fs = mode
            /\ failedSaves = (r.saved = "failed")
            /\ last = [NoCall EXCEPT !.op = "load_snippets", !.mode = mode,
                                     !.saved = r.saved,
                                     !.preAbsent = (f.kind = "absent"),
                                     !.preSynced = Synced(EmptyDict, f),
                                     !.readOk = readOk]

(***************************************************************************)
(* Python values, exceptions and strings                                   *)
(***************************************************************************)
Str(s) == [t |-> "str", s |-> s]
Int7 == [t |-> "int", s |-> <<"7">>]
Bytes == [t |-> "bytes", s |-> <<"b'h'">>]
Dict == [t |-> "dict", s |-> <<"{}">>]

\* str(v)
PyStr(v) == Str(v.s)

\* the classes `except Exception` catches; SystemExit derives from
\* BaseException only
ExceptionClasses == {"TypeError", "ValueError", "SyntaxError"}
IsException(e) == e.t \in ExceptionClasses

\* "argument" in str(te): the substring is in one of the message's words
ArgumentWords == {"argument", "arguments"}
HasArgument(msg) == \E i \in DOMAIN msg : msg[i] \in ArgumentWords

\* "positional argument" in str(te)
HasPositionalArgument(msg) ==
    \E i \in DOMAIN msg :
        i + 1 \in DOMAIN msg /\ msg[i] = "positional" /\ msg[i + 1] \in ArgumentWords

Return(v) == [k |-> "return", v |-> v]
Raise(cls, msg) == [k |-> "raise", v |-> [t |-> cls, s |-> msg]]

(***************************************************************************)
(* The default snippet's generate (the reference algorithm)                *)
(***************************************************************************)
IvLen == 16

NoKeyOrder == [given |-> FALSE, keys |-> <<>>]
KeyOrder(ks) == [given |-> TRUE, keys |-> ks]

\* `if key_order:` : a list is true when it is not empty, None is false
Truthy(key_order) == key_order.given /\ key_order.keys # <<>>

\* [k for k in payload.keys() if k != 'hash']
KeysExceptHash(payload) == SelectSeq(payload.keys, LAMBDA k : k # "hash")

\* [k for k in payload.keys() if k != 'hash' and k != '__keys_order__']
DefaultKeys(payload) ==
    SelectSeq(payload.keys, LAMBDA k : k # "hash" /\ k # "__keys_order__")

\* keys_to_sign
keys_to_sign(payload, key_order) ==
    IF Truthy(key_order) THEN key_order.keys ELSE DefaultKeys(payload)

\* val = payload.get(k); if val is None: val = ""; str(val)
ValueString(payload, k) ==
    LET val == DictGet(payload, k)
    IN  IF val = None THEN <<>> ELSE PyStr(val).s

\* concat_str = api_key if api_key else ""; then the loop
\* `for k in keys_to_sign: ... concat_str += str(val)`
RECURSIVE Concat(_, _, _)
Concat(acc, payload, ks) ==
    IF ks = <<>> THEN acc
    ELSE Concat(acc \o ValueString(payload, Head(ks)), payload, Tail(ks))

\* s[-n:]: the last n items, all of s when it has fewer
LastN(s, n) == IF Len(s) <= n THEN s ELSE SubSeq(s, Len(s) - n + 1, Len(s))

\* s[:-n]: all but the last n items, empty when s has no more than n
ButLastN(s, n) == IF Len(s) <= n THEN <<>> ELSE SubSeq(s, 1, Len(s) - n)

\* iv = passcode[-16:]
Iv(passcode) == LastN(passcode, IvLen)

\* key = passcode[:-16]
Key(passcode) == ButLastN(passcode, IvLen)

\* hmac.new(key, message, hashlib.sha256).hexdigest(): a digest that
\* determines its key and its message
HmacSha256Hex(key, message) == Str(<<"hmac-sha256">> \o key \o <<"|">> \o message)

PasscodeError == <<"PassCode", "must", "be", "at", "least", "16", "characters", "long.">>

\* the length check accepting a passcode of IvLen - 1 characters
TooShortOffByOne(passcode) == Len(passcode) < IvLen - 1

\* len(passcode) < 16
TooShort(passcode) == Len(passcode) < IvLen

\* message = iv + concat_str
Message(iv, concat_str) == iv \o concat_str

\* signature = hmac.new(key, message, sha256).hexdigest(); return signature
Sign(key, message) ==
    [k |-> "return", v |-> HmacSha256Hex(key, message),
     steps |-> <<"validate", "split", "concat", "message", "sign">>,
     message |-> message]

\* generate(payload, passcode, api_key, key_order):
\* [k, v, steps, message]
DefaultGenerate(payload, passcode, api_key, key_order) ==
    IF TooShort(passcode)
    THEN [k |-> "raise", v |-> [t |-> "ValueError", s |-> PasscodeError],
          steps |-> <<"validate">>, message |-> <<>>]
    ELSE Sign(Key(passcode),
              Message(Iv(passcode),
                      Concat(api_key, payload, keys_to_sign(payload, key_order))))

(***************************************************************************)
(* Snippets: what a snippet's source does when executed and called         *)
(***************************************************************************)
\* exec: what exec(snippet_code) does; defines: 'generate' is in the
\* namespace; callable: it is a function; accepts: the numbers of positional
\* arguments it binds; first, second: what its body does when entered the
\* first and the second time
Sn(exec, defines, callable, accepts, first, second) ==
    [exec |-> exec, defines |-> defines, callable |-> callable,
     accepts |-> accepts, first |-> first, second |-> second]

Ok == Return(None)
H == Str(<<"h">>)
ArgumentTypeError ==
    Raise("TypeError", <<"int()", "argument", "must", "be", "a", "string">>)
OtherTypeError == Raise("TypeError", <<"can", "only", "concatenate", "str">>)
SomeValueError == Raise("ValueError", <<"boom">>)
Exit == Raise("SystemExit", <<"1">>)

SnippetIds ==
    {DefaultCode, "syntax_error", "exec_exits", "no_generate", "not_callable",
     "three_param", "four_param", "two_param", "returns_int",
     "three_param_none", "returns_bytes", "returns_dict",
     "argument_type_error", "argument_type_error_once", "other_type_error",
     "value_error", "body_exits", "three_param_raises", "three_param_exits"}

Snippet(id) ==
    CASE id = DefaultCode -> Sn(Ok, TRUE, TRUE, {2, 3, 4}, Ok, Ok)
      [] id = "syntax_error" ->
            Sn(Raise("SyntaxError", <<"invalid", "syntax">>), FALSE, FALSE, {}, Ok, Ok)
      [] id = "exec_exits" -> Sn(Exit, FALSE, FALSE, {}, Ok, Ok)
      [] id = "no_generate" -> Sn(Ok, FALSE, FALSE, {}, Ok, Ok)
      [] id = "not_callable" -> Sn(Ok, TRUE, FALSE, {}, Ok, Ok)
      [] id = "three_param" -> Sn(Ok, TRUE, TRUE, {3}, Return(H), Return(H))
      [] id = "four_param" -> Sn(Ok, TRUE, TRUE, {4}, Return(H), Return(H))
      [] id = "two_param" -> Sn(Ok, TRUE, TRUE, {2}, Return(H), Return(H))
      [] id = "returns_int" -> Sn(Ok, TRUE, TRUE, {2, 3, 4}, Return(Int7), Return(Int7))
      [] id = "three_param_none" -> Sn(Ok, TRUE, TRUE, {2, 3}, Return(None), Return(None))
      [] id = "returns_bytes" -> Sn(Ok, TRUE, TRUE, {3}, Return(Bytes), Return(Bytes))
      [] id = "returns_dict" -> Sn(Ok, TRUE, TRUE, {4}, Return(Dict), Return(Dict))
      [] id = "argument_type_error" ->
            Sn(Ok, TRUE, TRUE, {2, 3, 4}, ArgumentTypeError, ArgumentTypeError)
      [] id = "argument_type_error_once" ->
            Sn(Ok, TRUE, TRUE, {2, 3, 4}, ArgumentTypeError, Return(H))
      [] id = "other_type_error" ->
            Sn(Ok, TRUE, TRUE, {2, 3, 4}, OtherTypeError, OtherTypeError)
      [] id = "value_error" -> Sn(Ok, TRUE, TRUE, {4}, SomeValueError, SomeValueError)
      [] id = "body_exits" -> Sn(Ok, TRUE, TRUE, {2, 3, 4}, Exit, Exit)
      [] id = "three_param_raises" ->
            Sn(Ok, TRUE, TRUE, {3}, SomeValueError, SomeValueError)
      [] id = "three_param_exits" -> Sn(Ok, TRUE, TRUE, {3}, Exit, Exit)

NoGen == [k |-> "none", v |-> None, steps |-> <<>>, message |-> <<>>]

ArityError(n) ==
    Raise("TypeError", <<"generate()", "takes", "positional", "arguments",
                         "but", ToString(n), "were", "given">>)
NotCallableError == Raise("TypeError", <<"'int'", "object", "is", "not", "callable">>)
MissingGenerate ==
    Raise("ValueError", <<"Snippet", "must", "define", "a", "'generate'", "function.">>)

\* what a call that entered generate's body gives: [k, v, entered, gen]
Entered(b, gen) == [k |-> b.k, v |-> b.v, entered |-> 1, gen |-> gen]

\* a call that raised before entering generate's body
NotEntered(e) == [k |-> "raise", v |-> e.v, entered |-> 0, gen |-> NoGen]

\* the default snippet's body, run: [k, v, entered, gen]
DefaultCall(g) == Entered(g, g)

\* generate_func(args): the call of snippet `sn` with n arguments, its body
\* entered `entry` times before: [k, v, entered, gen], entered counting this
\* call's entry into the body
Call(sn, id, n, entry, payload, passcode, api_key, key_order) ==
    IF ~sn.callable THEN NotEntered(NotCallableError)
    ELSE IF n \notin sn.accepts THEN NotEntered(ArityError(n))
    ELSE IF id = DefaultCode
    THEN DefaultCall(DefaultGenerate(payload, passcode, api_key,
                                     IF n >= 4 THEN key_order ELSE NoKeyOrder))
    ELSE Entered(IF entry = 0 THEN sn.first ELSE sn.second, NoGen)

(***************************************************************************)
(* CryptoEngine.execute_snippet                                            *)
(***************************************************************************)
\* f"Error: {str(e)}\n{traceback.format_exc()}"
ErrorString(e) == Str(<<"Error:">> \o e.s \o <<"\n", "Traceback">>)

\* the handler `except Exception as e`: the error string, or the exception
\* going on to the caller
Handle(e, calls, entered, gen) ==
    IF IsException(e)
    THEN [outcome |-> "return", value |-> ErrorString(e), error |-> TRUE,
          calls |-> calls, entered |-> entered, gen |-> gen]
    ELSE [outcome |-> "raise", value |-> e, error |-> TRUE,
          calls |-> calls, entered |-> entered, gen |-> gen]

\* `return generate_func(...)` with the result coerced: `return str(...)`
ReturnedCoerced(v) == PyStr(v)

\* `return generate_func(...)`: the value as generate returned it
Returned(v) == v

Success(v, calls, entered, gen) ==
    [outcome |-> "return", value |-> Returned(v), error |-> FALSE,
     calls |-> calls, entered |-> entered, gen |-> gen]

\* `except TypeError as te: if "positional argument" in str(te) or
\* "argument" in str(te)`
Retries(e) == e.t = "TypeError" /\ (HasPositionalArgument(e.s) \/ HasArgument(e.s))

\* the fallback call's outcome: `return generate_func(payload, passcode,
\* api_key)`, its exception going to `except Exception`
AfterFallback(c3, n1) ==
    IF c3.k = "return" THEN Success(c3.v, <<4, 3>>, n1 + c3.entered, c3.gen)
    ELSE Handle(c3.v, <<4, 3>>, n1 + c3.entered, c3.gen)

\* the four-argument call's outcome: its value returned, the fallback call
\* made, or its exception raised again
AfterCall(c4, sn, id, payload, passcode, api_key, key_order) ==
    IF c4.k = "return" THEN Success(c4.v, <<4>>, 1, c4.gen)
    ELSE IF Retries(c4.v)
    THEN AfterFallback(Call(sn, id, 3, c4.entered, payload, passcode, api_key, key_order),
                       c4.entered)
    ELSE Handle(c4.v, <<4>>, c4.entered, c4.gen)

\* the body of execute_snippet's try, for the snippet `sn`
Execute(sn, id, payload, passcode, api_key, key_order) ==
    IF sn.exec.k = "raise" THEN Handle(sn.exec.v, <<>>, 0, NoGen)
    ELSE IF ~sn.defines THEN Handle(MissingGenerate.v, <<>>, 0, NoGen)
    ELSE AfterCall(Call(sn, id, 4, 0, payload, passcode, api_key, key_order),
                   sn, id, payload, passcode, api_key, key_order)

\* execute_snippet(snippet_code, payload, passcode, api_key, key_order):
\* [outcome, value, error, calls, entered, gen]
execute_snippet(id, payload, passcode, api_key, key_order) ==
    Execute(Snippet(id), id, payload, passcode, api_key, key_order)

(***************************************************************************)
(* App.on_generate                                                         *)
(***************************************************************************)
\* key_order = [k.strip() for k in keys_str.split(',') if k.strip()]
\*             if keys_str else None
\* gen_keys holds the stripped parts of keys_str split at its commas; the
\* empty keys_str has the one part ""
ParseKeys(gen_keys) ==
    IF gen_keys = <<"">> THEN NoKeyOrder
    ELSE KeyOrder(SelectSeq(gen_keys, LAMBDA k : k # ""))

NoSnippet == "<no snippet>"
NoSnippetSelected == <<"Error:", "No", "snippet", "selected.">>
InvalidJson == <<"Error:", "Invalid", "JSON", "Payload">>

NoResult == [outcome |-> "none", value |-> None, error |-> FALSE,
             calls |-> <<>>, entered |-> 0, gen |-> NoGen]

\* self.gen_output.insert("1.0", str(result)), not reached when
\* execute_snippet raised
Show(x) ==
    IF x.outcome = "return"
    THEN [result |-> x, output |-> PyStr(x.value).s, shown |-> TRUE]
    ELSE [result |-> x, output |-> <<>>, shown |-> FALSE]

\* on_generate(): [result, output, shown]
on_generate(r) ==
    IF r.snippet = NoSnippet
    THEN [result |-> NoResult, output |-> NoSnippetSelected, shown |-> TRUE]
    ELSE IF ~r.json_ok
    THEN [result |-> NoResult, output |-> InvalidJson, shown |-> TRUE]
    ELSE Show(execute_snippet(r.snippet, r.payload, r.passcode, r.api_key,
                              ParseKeys(r.gen_keys)))

(***************************************************************************)
(* The generate tab's inputs                                               *)
(***************************************************************************)
MaxPayloadKeys == 2
MaxKeys == 2
MaxKeyLen == 2

PayloadKeys == {"a", "hash", "__keys_order__"}
PayloadValues == {None, Str(<<"x">>), Int7}

KeySeqs ==
    UNION {{s \in [1..n -> PayloadKeys] : \A i, j \in 1..n : i # j => s[i] # s[j]} :
           n \in 0..MaxPayloadKeys}
Payloads == UNION {{[keys |-> ks, val |-> v] : v \in [Range(ks) -> PayloadValues]} :
                   ks \in KeySeqs}

Passcode(n) == [i \in 1..n |-> "p" \o ToString(i)]
Passcodes == {Passcode(n) : n \in {0, IvLen - 1, IvLen, IvLen + MaxKeyLen}}

ApiKeys == {<<>>, <<"K">>}

KeyTokens == {"a", "hash", "zz", ""}
GenKeys == UNION {[1..n -> KeyTokens] : n \in 1..MaxKeys}

Request(snippet, json_ok, payload, passcode, api_key, gen_keys) ==
    [snippet |-> snippet, json_ok |-> json_ok, payload |-> payload,
     passcode |-> passcode, api_key |-> api_key, gen_keys |-> gen_keys]

\* requests that run the default snippet
ReferenceRequests ==
    {Request(DefaultCode, TRUE, p, pw, a, g) :
        p \in Payloads, pw \in Passcodes, a \in ApiKeys, g \in GenKeys}

SomePayload == [keys |-> <<"a">>, val |-> [x \in {"a"} |-> Str(<<"x">>)]]

\* requests that run the other snippets, no snippet, or a malformed payload
OtherRequests ==
    {Request(sn, ok, IF ok THEN SomePayload ELSE EmptyDict, pw, <<"K">>, g) :
        sn \in (SnippetIds \ {DefaultCode}) \cup {NoSnippet}, ok \in BOOLEAN,
        pw \in Passcodes, g \in GenKeys}
    \cup {Request(DefaultCode, FALSE, EmptyDict, Passcode(IvLen), <<>>, <<"">>)}

Requests == ReferenceRequests \cup OtherRequests

Idle == Request(NoSnippet, TRUE, EmptyDict, <<>>, <<>>, <<"">>)

EngineIdle ==
    /\ pc = "idle"
    /\ req = Idle
    /\ result = NoResult
    /\ gen_output = <<>>

Init == StoreInit /\ EngineIdle

\* a caller's update_snippet(name, code, description); it returns None
UpdateSnippet(name, code, description) ==
    LET r == update_snippet(snippets, file, fs, name, code, description)
    IN  /\ snippets' = r.snippets
        /\ file' = r.file
        /\ failedSaves' = (failedSaves \/ r.saved = "failed")
        /\ last' = [op |-> "update_snippet", name |-> name, code |-> code,
                    description |-> description, mode |-> fs,
                    saved |-> r.saved, ret |-> "None",
                    pre |-> snippets, preAbsent |-> (file.kind = "absent"),
                    preSynced |-> Synced(snippets, file), readOk |-> TRUE]
        /\ UNCHANGED <<fs, pc, req, result, gen_output>>

\* a caller's delete_snippet(name); it returns None
DeleteSnippet(name) ==
    LET r == delete_snippet(snippets, file, fs, name)
    IN  /\ snippets' = r.snippets
        /\ file' = r.file
        /\ failedSaves' = (failedSaves \/ r.saved = "failed")
        /\ last' = [NoCall EXCEPT !.op = "delete_snippet", !.name = name,
                                  !.mode = fs, !.saved = r.saved,
                                  !.pre = snippets,
                                  !.preAbsent = (file.kind = "absent"),
                                  !.preSynced = Synced(snippets, file)]
        /\ UNCHANGED <<fs, pc, req, result, gen_output>>

\* a caller's load_snippets()
LoadSnippets(readOk) ==
    LET r == load_snippets(snippets, file, fs, readOk)
    IN  /\ snippets' = r.snippets
        /\ file' = r.file
        /\ failedSaves' = (failedSaves \/ r.saved = "failed")
        /\ last' = [NoCall EXCEPT !.op = "load_snippets", !.mode = fs,
                                  !.saved = r.saved,
                                  !.pre = snippets,
                                  !.preAbsent = (file.kind = "absent"),
                                  !.preSynced = Synced(snippets, file),
                                  !.readOk = readOk]
        /\ UNCHANGED <<fs, pc, req, result, gen_output>>

\* the environment: the file system's condition changes
SetFs(mode) ==
    /\ mode # fs
    /\ fs' = mode
    /\ UNCHANGED <<snippets, file, last, failedSaves, pc, req, result, gen_output>>

Next ==
    \/ \E name \in Names, code \in Codes, description \in Descriptions :
           UpdateSnippet(name, code, description)
    \/ \E name \in Names : DeleteSnippet(name)
    \/ \E readOk \in BOOLEAN : LoadSnippets(readOk)
    \/ \E mode \in FsModes : SetFs(mode)

Spec == Init /\ [][Next]_vars

(***************************************************************************)
(* The generate tab: a request is entered and Generate is pressed          *)
(***************************************************************************)
\* the store on a first run with a writable directory
FreshStore ==
    LET r == load_snippets(EmptyDict, Absent, "ok", TRUE)
    IN  /\ snippets = r.snippets
        /\ file = r.file
        /\ fs = "ok"
        /\ failedSaves = FALSE
        /\ last = [NoCall EXCEPT !.op = "load_snippets", !.saved = r.saved,
                                 !.preAbsent = TRUE]

EngineInit ==
    /\ FreshStore
    /\ pc = "ready"
    /\ req \in Requests
    /\ result = NoResult
    /\ gen_output = <<>>

\* the Generate button: on_generate()
Generate ==
    /\ pc = "ready"
    /\ LET g == on_generate(req)
       IN  /\ result' = g.result
           /\ gen_output' = IF g.shown THEN g.output ELSE gen_output
    /\ pc' = "done"
    /\ UNCHANGED <<snippets, file, fs, last, failedSaves, req>>

EngineNext == Generate

EngineSpec == EngineInit /\ [][EngineNext]_vars

(***************************************************************************)
(* Properties of the store (under Spec)                                    *)
(***************************************************************************)
Entry(code, description) == [code |-> code, description |-> description]

\* C1: after update_snippet(name, code, description) whose write succeeded,
\* what a load reads from the file is the in-memory collection; in it `name`
\* has exactly the code and description given, and every other entry that was
\* in memory before the call is there unchanged.
C1_RoundTrip ==
    (last.op = "update_snippet" /\ last.saved = "ok") =>
        /\ file.kind = "json"
        /\ LET loaded == json_load(file.doc)
           IN  /\ loaded = snippets
               /\ HasKey(loaded, last.name)
               /\ DictGet(loaded, last.name) = Entry(last.code, last.description)
               /\ \A k \in Range(last.pre.keys) \ {last.name} :
                      HasKey(loaded, k) /\ DictGet(loaded, k) = last.pre.val[k]

\* C1's case: an entry with the empty description is saved beside another
\* entry, over a file that did not hold the collection
C1_Witness ==
    /\ last.op = "update_snippet" /\ last.saved = "ok"
    /\ last.description = ""
    /\ Range(last.pre.keys) \ {last.name} # {}
    /\ ~last.preSynced

\* C2: when the write of update_snippet or delete_snippet fails, the caller
\* is told: the call's return value is not the None it returns on success.
C2_FailureSurfaced ==
    (last.op \in {"update_snippet", "delete_snippet"} /\ last.saved = "failed") =>
        last.ret # "None"

\* C8 as stated: after load_snippets() called with the file absent, the
\* collection and the file hold exactly the one default entry.
C8_SeedsExactlyOne ==
    (last.op = "load_snippets" /\ last.preAbsent) =>
        /\ snippets = DictSet(EmptyDict, DefaultName, DefaultSnippet)
        /\ file = JsonFile(<<[key |-> DefaultName, code |-> DefaultCode,
                              description |-> DefaultDescription]>>)

\* C8 amended: after load_snippets() called with the file absent, when the
\* seeding write succeeded and the file was read back, the collection and the
\* file hold the entries that were in memory before the call with the default
\* entry set among them (exactly the one default entry when the collection
\* was empty, as at construction); when the write or the read failed, the
\* collection is empty.
C8_SeedsDefault ==
    (last.op = "load_snippets" /\ last.preAbsent) =>
        IF last.saved = "ok" /\ last.readOk
        THEN /\ snippets = DictSet(last.pre, DefaultName, DefaultSnippet)
             /\ DictGet(snippets, DefaultName) = Entry(DefaultCode, DefaultDescription)
             /\ Synced(snippets, file)
             /\ last.pre = EmptyDict => snippets.keys = <<DefaultName>>
        ELSE /\ snippets = EmptyDict
             /\ last.saved = "failed" => file.kind # "json"

\* C8's case: the file is absent, load_snippets is called with another entry
\* in memory, and the seeding write succeeds
C8_Witness ==
    /\ last.op = "load_snippets" /\ last.preAbsent
    /\ last.saved = "ok" /\ last.readOk
    /\ HasKey(last.pre, "a")
    /\ Len(snippets.keys) = 2

\* C10 as stated: after a failed save, an update_snippet or delete_snippet
\* call made while the file is writable leaves the file holding the in-memory
\* collection.
C10_WritableCallRecovers ==
    (failedSaves /\ last.op \in {"update_snippet", "delete_snippet"} /\ last.mode = "ok") =>
        Synced(snippets, file)

\* C10 amended: a failed save leaves the call's change in memory; an
\* update_snippet call, and a delete_snippet call of a name that is present,
\* made while the file is writable leaves the file holding the in-memory
\* collection; a delete_snippet call of an absent name writes nothing, and
\* leaves the collection and the file as they were.
C10_PresentCallRecovers ==
    /\ (last.op = "update_snippet" /\ last.mode = "ok") => Synced(snippets, file)
    /\ (last.op = "delete_snippet" /\ last.mode = "ok" /\ HasKey(last.pre, last.name)) =>
           Synced(snippets, file)
    /\ (last.op = "delete_snippet" /\ ~HasKey(last.pre, last.name)) =>
           /\ last.saved = "none"
           /\ snippets = last.pre
           /\ Synced(snippets, file) = last.preSynced
    /\ (last.op = "update_snippet" /\ last.saved = "failed") =>
           snippets = DictSet(last.pre, last.name, Entry(last.code, last.description))
    /\ (last.op = "delete_snippet" /\ last.saved = "failed") =>
           snippets = DictDel(last.pre, last.name)

\* C10's case: after a failed save left the file behind, a delete_snippet of
\* a present name is made while the file is writable
C10_Witness ==
    /\ failedSaves
    /\ last.op = "delete_snippet" /\ last.mode = "ok"
    /\ HasKey(last.pre, last.name)
    /\ ~last.preSynced
    /\ snippets # EmptyDict

(***************************************************************************)
(* Properties of the engine and the reference algorithm (under EngineSpec) *)
(***************************************************************************)
Executed == pc = "done" /\ result.outcome # "none"

RanDefault == Executed /\ req.snippet = DefaultCode

\* C3: execute_snippet returns a value to its caller for every snippet; for
\* one that does not define generate the value is an error string naming
\* 'generate', and generate is not called.
C3_NeverThrows ==
    Executed =>
        /\ result.outcome = "return"
        /\ (Snippet(req.snippet).exec.k = "return" /\ ~Snippet(req.snippet).defines) =>
               /\ result.error
               /\ result.value.t = "str"
               /\ \E i \in DOMAIN result.value.s : result.value.s[i] = "'generate'"
               /\ result.calls = <<>>
               /\ result.entered = 0

\* C4: within one execute_snippet call generate is called with three
\* arguments if and only if the four-argument call failed because generate
\* does not take four arguments; the retry happens at most once, and no other
\* failure has generate entered a second time.
C4_RetryOnlyOnArity ==
    (Executed /\ Snippet(req.snippet).exec.k = "return" /\ Snippet(req.snippet).defines) =>
        /\ result.calls \in {<<4>>, <<4, 3>>}
        /\ result.calls = <<4, 3>> <=>
               (Snippet(req.snippet).callable /\ 4 \notin Snippet(req.snippet).accepts)
        /\ result.entered <= 1

\* C5 as stated: on success the value execute_snippet returns is a string.
C5_ReturnsString ==
    (Executed /\ result.outcome = "return" /\ ~result.error) => result.value.t = "str"

\* what the body of the snippet returned in the call that succeeded
BodyValue ==
    IF req.snippet = DefaultCode THEN result.gen.v
    ELSE IF result.entered = 2 THEN Snippet(req.snippet).second.v
    ELSE Snippet(req.snippet).first.v

\* C5 amended: on success execute_snippet returns the value generate
\* returned, unchanged and of whatever type, on the four-argument path and on
\* the three-argument fallback path; on_generate, its caller, shows that
\* value's string form.
C5_ReturnsValueAsIs ==
    (Executed /\ result.outcome = "return" /\ ~result.error) =>
        /\ result.value = BodyValue
        /\ gen_output = result.value.s

\* C5's case: generate returns None on the three-argument fallback path
C5_Witness ==
    /\ Executed /\ result.outcome = "return" /\ ~result.error
    /\ result.calls = <<4, 3>>
    /\ result.value.t = "NoneType"
    /\ gen_output = <<"None">>

\* C6: for a passcode shorter than 16 the reference algorithm raises the
\* invalid-passcode error having done nothing but the length check, and
\* execute_snippet returns an error string carrying that message.
C6_ShortPasscodeFails ==
    (RanDefault /\ Len(req.passcode) < 16) =>
        /\ result.gen.k = "raise"
        /\ result.gen.steps = <<"validate">>
        /\ result.outcome = "return"
        /\ result.error
        /\ result.value.t = "str"
        /\ result.value.s = <<"Error:", "PassCode", "must", "be", "at", "least", "16",
                              "characters", "long.", "\n", "Traceback">>
        /\ result.calls = <<4>>

\* C6's case: a passcode of 15 characters
C6_Witness == RanDefault /\ Len(req.passcode) = 15 /\ req.payload # EmptyDict

\* the payload's keys but `hash` and `__keys_order__`, in the payload's order
AllButHashAndMeta(payload) ==
    SelectSeq(payload.keys, LAMBDA k : k \notin {"hash", "__keys_order__"})

LongEnough == Len(req.passcode) >= 16

Omitted == ~ParseKeys(req.gen_keys).given

\* C7 as stated: with key_order omitted the digest is the one of the call
\* with key_order set to the payload's keys except `hash`.
C7_OmittedIsAllButHash ==
    (RanDefault /\ LongEnough /\ Omitted) =>
        result.value = DefaultGenerate(req.payload, req.passcode, req.api_key,
                                       KeyOrder(KeysExceptHash(req.payload))).v

\* C7 amended: with key_order omitted the digest (and the signed message) is
\* the one of the call with key_order set to the payload's keys except `hash`
\* and `__keys_order__`, in the payload's order.
C7_OmittedIsAllButHashAndMeta ==
    (RanDefault /\ LongEnough /\ Omitted) =>
        LET explicit == DefaultGenerate(req.payload, req.passcode, req.api_key,
                                        KeyOrder(AllButHashAndMeta(req.payload)))
        IN  /\ ~result.error
            /\ result.value = explicit.v
            /\ result.gen.message = explicit.message

\* C7's case: key_order is omitted and the payload has a `__keys_order__`
\* key with a value
C7_Witness ==
    /\ RanDefault /\ LongEnough /\ Omitted
    /\ HasKey(req.payload, "__keys_order__")
    /\ DictGet(req.payload, "__keys_order__") # None
    /\ HasKey(req.payload, "a")

\* the string forms of the payload's values at the keys of `ks`, in order, a
\* null or missing value giving nothing
RECURSIVE Verbatim(_, _)
Verbatim(payload, ks) ==
    IF ks = <<>> THEN <<>>
    ELSE (IF ~HasKey(payload, Head(ks)) \/ payload.val[Head(ks)].t = "NoneType"
          THEN <<>> ELSE payload.val[Head(ks)].s)
         \o Verbatim(payload, Tail(ks))

\* C9: whenever key_order is given (the empty list too) the signed message is
\* the iv, then api_key, then the string form of the payload's value at each
\* element of key_order in order.
C9_KeyOrderVerbatim ==
    (RanDefault /\ LongEnough /\ ParseKeys(req.gen_keys).given) =>
        result.gen.message =
            LastN(req.passcode, 16) \o req.api_key
                \o Verbatim(req.payload, ParseKeys(req.gen_keys).keys)

====
